---- MODULE Spec2Model ----
(***************************************************************************)
(* Model of the forecast dashboard script (src/app.py).  One script run    *)
(* (a "refresh cycle") is the sequence health check, /predict fetch,       *)
(* /history fetch, KPI tiles, charts and table, diagnostics, auto-refresh  *)
(* registration.  A run is started by the user (page load, widget change)  *)
(* or by the auto-refresh timer registered by the previous run.            *)
(*                                                                         *)
(* Python values: None is the empty tuple and a present value x is <<x>>.  *)
(* A JSON scalar is <<"num", n>> or <<"str">> (a non-numeric string).  A   *)
(* raw date is <<"ts", day, timeOfDay>> or <<"bad">> (unparseable).  A     *)
(* DataFrame is the sequence of its rows, in row order.                    *)
(***************************************************************************)
EXTENDS Integers, Sequences, FiniteSets, TLC

\* ---------------------------------------------------------------- bounds
ClockStep == 15
MaxDay == 2
MaxVal == 1
MaxRecs == 2

\* ------------------------------------------------------ program constants
TTL == 30
horizon == 7
history_days == 365
RefreshDefault == 60
PctScale == 1000
MaeScale == 10000

\* ---------------------------------------------------------------- values
None == <<>>
Some(x) == <<x>>
Num(n) == <<"num", n>>
Str == <<"str">>
IsNum(v) == v[1] = "num"
Ts(d, t) == <<"ts", d, t>>
BadDate == <<"bad">>
Dash == <<"-">>
Abs(x) == IF x < 0 THEN -x ELSE x

Days == 1..MaxDay
Vals == 0..MaxVal
Assets == {"SL20_SYN", "BTC-USD"}
Endpoints == <<"health", "predict", "history">>

\* float(x) of a JSON number; the caller checks IsNum first (a non-numeric
\* string makes float() raise ValueError).
Float(v) == v[2]

\* pd.to_datetime(col) raises for the whole column when one entry does not
\* parse.
DatesParse(recs) == \A i \in DOMAIN recs : recs[i].date[1] = "ts"

\* pd.to_datetime(col).dt.date.astype(str): the time of day is dropped and
\* the calendar day kept (day strings order like the day numbers).
ToDate(raw) == raw[2]

ConvertDates(recs) == [i \in DOMAIN recs |-> [recs[i] EXCEPT !.date = ToDate(@)]]

\* fmt_num: "-" for None, else the number with two decimals (in hundredths).
fmt_num(x) == IF x = None THEN Dash ELSE <<"val", x[1] * 100>>

\* ------------------------------------------------------- get_json + cache
\* The arguments of a get_json call of the script: the URL and the params.
Req(ep, a) ==
  CASE ep = "health" -> <<"health">>
    [] ep = "predict" -> <<"predict", a, horizon>>
    [] ep = "history" -> <<"history", a, history_days>>

Keys == {Req("health", "SL20_SYN")}
          \cup {Req("predict", a) : a \in Assets}
          \cup {Req("history", a) : a \in Assets}

\* Faulty variant of CacheKey: entries keyed by the endpoint, not the params.
CacheKeyIgnoresParams(req) ==
  IF req[1] = "health" THEN req ELSE <<req[1], "SL20_SYN", req[3]>>

\* st.cache_data keys an entry by the function's arguments (url, params).
CacheKey(req) == req

EmptyCache == [k \in Keys |-> None]

\* An entry answers a call while it is younger than the TTL.
Live(c, k) == c[k] # None /\ c[k][1].age < TTL

\* get_json under @st.cache_data(ttl=30).  `out` is what the network would
\* answer: None when requests raises (connection error, timeout,
\* raise_for_status), else <<body>>.  A live entry answers without a
\* request; an exception propagates and stores nothing.
get_json(c, req, out) ==
  LET k == CacheKey(req) IN
  IF Live(c, k)
    THEN [cache |-> c, sent |-> FALSE, raised |-> FALSE, body |-> Some(c[k][1].resp)]
    ELSE IF out = None
      THEN [cache |-> c, sent |-> TRUE, raised |-> TRUE, body |-> None]
      ELSE [cache |-> [c EXCEPT ![k] = Some([resp |-> out[1], age |-> 0])],
            sent |-> TRUE, raised |-> FALSE, body |-> out]

\* The record of what the network returned in the last TTL seconds.
Age(n, dt) ==
  [k \in Keys |->
     IF n[k] # None /\ n[k][1].age + dt < TTL
       THEN Some([resp |-> n[k][1].resp, age |-> n[k][1].age + dt])
       ELSE None]

\* Time passing: every entry ages by dt; an expired entry is dropped.
Elapse(c, dt) ==
  [k \in Keys |->
     IF c[k] = None \/ c[k][1].age + dt >= TTL THEN None
     ELSE Some([c[k][1] EXCEPT !.age = @ + dt])]

\* ------------------------------------------------------------ KPI values
\* (delta / float(last_value)) * 100.0, kept in thousandths of a percent
\* (the tiles print three decimals).  Only called with last # 0.
Pct(delta, last) == (delta * 100 * PctScale) \div last

\* float(pred_df.iloc[-1]["yhat"]) and float(pred_df.iloc[0]["yhat"]) raise
\* ValueError on a non-numeric entry.
FloatRaises(df) ==
  df # <<>> /\ (~IsNum(df[Len(df)].yhat) \/ ~IsNum(df[1].yhat))

\* The KPI variables of one run: last_value from the /predict body, end_pred
\* and next_pred from the last and first ROW of pred_df, and the deltas and
\* percentages guarded as in the script.
KpiDerive(lv, df) ==
  LET end_pred == IF df # <<>> THEN Some(Float(df[Len(df)].yhat)) ELSE None
      have_h == lv # None /\ end_pred # None
      delta_h == IF have_h THEN Some(end_pred[1] - lv[1]) ELSE None
      pct_h == IF have_h /\ lv[1] # 0 THEN Some(Pct(delta_h[1], lv[1])) ELSE None
      next_pred == IF df # <<>> THEN Some(Float(df[1].yhat)) ELSE None
      have_n == lv # None /\ next_pred # None
      delta == IF have_n THEN Some(next_pred[1] - lv[1]) ELSE None
      pct == IF have_n /\ lv[1] # 0 THEN Some(Pct(delta[1], lv[1])) ELSE None
  IN [last_value |-> lv, end_pred |-> end_pred, next_pred |-> next_pred,
      delta |-> delta, pct |-> pct, delta_h |-> delta_h, pct_h |-> pct_h]

NoKpi == [last_value |-> None, end_pred |-> None, next_pred |-> None,
          delta |-> None, pct |-> None, delta_h |-> None, pct_h |-> None]

\* Tile c4 takes its "-" branch on delta alone; its other branch formats
\* pct with {pct:,.3f}, which raises TypeError when pct is None.
TileC4Raises(k) == k.delta # None /\ k.pct = None

TileC4(k) ==
  IF k.delta = None THEN Dash ELSE <<"val", k.delta[1] * 100, k.pct[1]>>

\* Tile c5 takes its "-" branch when delta_h or pct_h is None.
TileC5(k) ==
  IF k.delta_h = None \/ k.pct_h = None THEN Dash
  ELSE <<"val", k.delta_h[1] * 100, k.pct_h[1]>>

\* ---------------------------------------------------------------- charts
\* build_forecast_fig: the names of the traces added.  h is None or <<df>>.
build_forecast_fig(h, p) ==
  LET hasH == h # None /\ h[1] # <<>>
      hasP == p # <<>>
  IN (IF hasH THEN {"Actual"} ELSE {})
       \cup (IF hasP /\ hasH THEN {"Transition"} ELSE {})
       \cup (IF hasP THEN {"Forecast"} ELSE {})

\* pd.merge(a, p, on="date", how="inner"): for every row of a in order, one
\* merged row per row of p with the same date, in p's order.
MergeRow(ra, rp) == [date |-> ra.date, close |-> ra.close, yhat |-> rp.yhat]

RECURSIVE RowsWith(_, _)
RowsWith(ra, p) ==
  IF p = <<>> THEN <<>>
  ELSE (IF Head(p).date = ra.date THEN <<MergeRow(ra, Head(p))>> ELSE <<>>)
         \o RowsWith(ra, Tail(p))

\* Faulty variant of Merge: rows paired by position instead of by date.
RECURSIVE MergeByPosition(_, _)
MergeByPosition(a, p) ==
  IF a = <<>> \/ p = <<>> THEN <<>>
  ELSE <<MergeRow(Head(a), Head(p))>> \o MergeByPosition(Tail(a), Tail(p))

RECURSIVE Merge(_, _)
Merge(a, p) ==
  IF a = <<>> THEN <<>> ELSE RowsWith(Head(a), p) \o Merge(Tail(a), p)

RECURSIVE SumSeq(_)
SumSeq(s) == IF s = <<>> THEN 0 ELSE Head(s) + SumSeq(Tail(s))

\* merged["close"] - merged["yhat"] raises TypeError on a non-numeric entry
\* of a merged row.
ResidualRaises(a, p) ==
  \E i \in DOMAIN Merge(a, p) :
     ~IsNum(Merge(a, p)[i].close) \/ ~IsNum(Merge(a, p)[i].yhat)

\* build_residual_fig: (None, None) for an empty input or an empty merge,
\* else the merged rows with residual and abs_error, and their mean
\* abs_error (in 1/MaeScale units: the metric prints four decimals).
build_residual_fig(a, p) ==
  IF a = <<>> \/ p = <<>> THEN [fig |-> None, mae |-> None]
  ELSE LET merged == Merge(a, p)
           rows == [i \in DOMAIN merged |->
                      LET r == Float(merged[i].close) - Float(merged[i].yhat)
                      IN [date |-> merged[i].date,
                          close |-> Float(merged[i].close),
                          yhat |-> Float(merged[i].yhat),
                          residual |-> r, abs_error |-> Abs(r)]]
       IN IF merged = <<>> THEN [fig |-> None, mae |-> None]
          ELSE [fig |-> Some(rows),
                mae |-> Some((SumSeq([i \in DOMAIN rows |-> rows[i].abs_error])
                                * MaeScale) \div Len(rows))]

\* ----------------------------------------------------------------- state
VARIABLES
  pc,                \* position of the script run, or how the last run ended
  trigger,           \* what started the current run: "manual" or "timer"
  asset,             \* sidebar: the selected asset
  auto_refresh,      \* sidebar: the auto-refresh checkbox
  timer,             \* interval of the mounted st_autorefresh timer, 0 if none
  cache,             \* st.cache_data entries of get_json
  net,               \* per key, the last body the network returned, with its age
  calls,             \* the get_json calls of the current run, in order
  health_ok,
  pred_data,
  pred_df,
  history_df,
  history_supported,
  kpi,               \* last_value, end_pred, next_pred, delta, pct, delta_h, pct_h
  ui,                \* what the current run has rendered
  res_fig,
  mae

vars == <<pc, trigger, asset, auto_refresh, timer, cache, net, calls, health_ok,
          pred_data, pred_df, history_df, history_supported, kpi, ui, res_fig, mae>>

BlankUi == [err |-> "none", c1 |-> None, c2 |-> None, c3 |-> None, c4 |-> None,
            c5 |-> None, chart |-> None, table |-> "none", status |-> "none",
            diag |-> "none"]

Ended == {"stopped", "crashed", "done"}

\* ---------------------------------------------------------------- inputs
PredRec(d, v) == [date |-> d, yhat |-> v]
HistRec(d, v) == [date |-> d, close |-> v]
SeqsUpTo(S, n) == UNION {[1..k -> S] : k \in 0..n}

RawDates == {Ts(d, t) : d \in Days, t \in {0, 1}} \cup {BadDate}
RawVals == {Num(v) : v \in Vals} \cup {Str}
LastValues == {None} \cup {Some(v) : v \in Vals}

HealthOutcomes ==
  {None, Some([status |-> "ok"]), Some([status |-> "down"])}

\* Every /predict body with at most MaxRecs records.
PredictBodies ==
  [last_value : LastValues,
   predictions : SeqsUpTo([date : RawDates, yhat : RawVals], MaxRecs)]

\* The /predict and /history bodies of the multi-run specification: one of
\* each shape (empty, last value zero, ordinary, unparseable date).
CyclePredictBodies ==
  {[last_value |-> None, predictions |-> <<>>],
   [last_value |-> Some(0), predictions |-> <<PredRec(Ts(MaxDay, 0), Num(MaxVal))>>],
   [last_value |-> Some(MaxVal),
    predictions |-> <<PredRec(Ts(1, 0), Num(0)), PredRec(Ts(MaxDay, 1), Num(MaxVal))>>],
   [last_value |-> Some(MaxVal), predictions |-> <<PredRec(BadDate, Num(0))>>]}

CycleHistoryBodies ==
  {[history |-> <<>>],
   [history |-> <<HistRec(Ts(1, 1), Num(MaxVal)), HistRec(Ts(MaxDay, 0), Num(0))>>],
   [history |-> <<HistRec(BadDate, Num(0))>>]}

Outcomes(bodies) == {None} \cup {Some(b) : b \in bodies}

RefreshSecs == {ClockStep, RefreshDefault}
Elapsed == {0, ClockStep, TTL}

\* ------------------------------------------------------------------ Init
\* The page is loaded with the sidebar defaults and the first run begins.
Init ==
  /\ pc = "health"
  /\ trigger = "manual"
  /\ asset = "SL20_SYN"
  /\ auto_refresh = TRUE
  /\ timer = 0
  /\ cache = EmptyCache
  /\ net = EmptyCache
  /\ calls = <<>>
  /\ health_ok = FALSE
  /\ pred_data = None
  /\ pred_df = <<>>
  /\ history_df = <<>>
  /\ history_supported = TRUE
  /\ kpi = NoKpi
  /\ ui = BlankUi
  /\ res_fig = None
  /\ mae = None

\* --------------------------------------------------------------- actions
\* A new script run: the page of the previous run is replaced and every
\* script variable starts over.  dt is the time since the previous run.
StartRun(dt) ==
  /\ pc' = "health"
  /\ cache' = Elapse(cache, dt)
  /\ net' = Age(net, dt)
  /\ calls' = <<>>
  /\ health_ok' = FALSE
  /\ pred_data' = None
  /\ pred_df' = <<>>
  /\ history_df' = <<>>
  /\ history_supported' = TRUE
  /\ kpi' = NoKpi
  /\ ui' = BlankUi
  /\ res_fig' = None
  /\ mae' = None
  /\ UNCHANGED timer

\* The user loads the page or changes a sidebar control.
ManualRerun ==
  /\ pc \in Ended
  /\ \E a \in Assets, ar \in BOOLEAN, dt \in Elapsed :
       /\ asset' = a
       /\ auto_refresh' = ar
       /\ StartRun(dt)
  /\ trigger' = "manual"

\* The mounted st_autorefresh timer fires after its interval.
TimerRerun ==
  /\ pc \in Ended
  /\ timer # 0
  /\ StartRun(timer)
  /\ trigger' = "timer"
  /\ UNCHANGED <<asset, auto_refresh>>

\* One get_json call of the run: the cache, the call log and the record of
\* what the network returned.
Fetch(ep, out) ==
  LET k == Req(ep, asset)
      r == get_json(cache, k, out)
  IN /\ cache' = r.cache
     /\ calls' = Append(calls, [ep |-> ep, req |-> k, sent |-> r.sent,
                                raised |-> r.raised, body |-> r.body])
     /\ net' = IF r.sent /\ out # None
                 THEN [net EXCEPT ![k] = Some([resp |-> out[1], age |-> 0])]
                 ELSE net

Returned(ep, out) == get_json(cache, Req(ep, asset), out)

\* Faulty variant of HealthOk: the status field is not compared.
HealthOkAnyStatus(r) == ~r.raised

\* health_ok: the request returned and its body's status is "ok".
HealthOk(r) == ~r.raised /\ r.body[1].status = "ok"

\* The try block of /predict (resp. /history) raised: the request, or the
\* date conversion of a non-empty record list.
PredictFailed(r) ==
  r.raised \/ (r.body[1].predictions # <<>> /\ ~DatesParse(r.body[1].predictions))

HistoryFailed(r) ==
  r.raised \/ (r.body[1].history # <<>> /\ ~DatesParse(r.body[1].history))

\* Faulty variant of AfterPredict: st.stop() is missing.
AfterPredictNoStop(failed) == "history"

\* st.stop() in the except branch of /predict ends the run.
AfterPredict(failed) == IF failed THEN "stopped" ELSE "history"

\* Health check: st.error and st.stop unless the body's status is "ok".
\* A run that ends before st_autorefresh leaves no timer on the page.
HealthCheck ==
  /\ pc = "health"
  /\ \E out \in HealthOutcomes :
       LET r == Returned("health", out)
           ok == HealthOk(r)
       IN /\ Fetch("health", out)
          /\ health_ok' = ok
          /\ IF ok
               THEN /\ pc' = "predict"
                    /\ UNCHANGED <<ui, timer>>
               ELSE /\ pc' = "stopped"
                    /\ ui' = [ui EXCEPT !.err = "unhealthy"]
                    /\ timer' = 0
  /\ UNCHANGED <<trigger, asset, auto_refresh, pred_data, pred_df, history_df,
                 history_supported, kpi, res_fig, mae>>

\* Fetch predictions: any exception of the request or of the date
\* conversion is reported with st.error and ends the run with st.stop.
FetchPredict(bodies) ==
  /\ pc = "predict"
  /\ \E out \in Outcomes(bodies) :
       LET r == Returned("predict", out)
           recs == r.body[1].predictions
           failed == PredictFailed(r)
       IN /\ Fetch("predict", out)
          /\ pc' = AfterPredict(failed)
          /\ IF failed
               THEN /\ ui' = [ui EXCEPT !.err = "predict_failed"]
                    /\ timer' = 0
                    /\ UNCHANGED <<pred_data, pred_df>>
               ELSE /\ pred_data' = r.body
                    /\ pred_df' = ConvertDates(recs)
                    /\ UNCHANGED <<ui, timer>>
  /\ UNCHANGED <<trigger, asset, auto_refresh, health_ok, history_df,
                 history_supported, kpi, res_fig, mae>>

\* Fetch history: any exception marks the endpoint unsupported and the run
\* goes on with an empty history_df.
FetchHistory(bodies) ==
  /\ pc = "history"
  /\ \E out \in Outcomes(bodies) :
       LET r == Returned("history", out)
           recs == r.body[1].history
           failed == HistoryFailed(r)
       IN /\ Fetch("history", out)
          /\ history_supported' = ~failed
          /\ history_df' = IF failed THEN <<>> ELSE ConvertDates(recs)
  /\ pc' = "kpi"
  /\ UNCHANGED <<trigger, asset, auto_refresh, timer, health_ok, pred_data,
                 pred_df, kpi, ui, res_fig, mae>>

\* KPI row: the derived values, then the tiles c1..c5 in order.  An
\* uncaught exception ends the run where it is raised: the tiles before it
\* stay rendered, Streamlit shows the exception, nothing after it runs.
KPIs ==
  /\ pc = "kpi"
  /\ LET lv == pred_data[1].last_value
     IN IF FloatRaises(pred_df)
          THEN /\ pc' = "crashed"
               /\ ui' = [ui EXCEPT !.err = "exception"]
               /\ timer' = 0
               /\ UNCHANGED kpi
          ELSE LET k == KpiDerive(lv, pred_df)
                   u3 == [ui EXCEPT !.c1 = Some(asset),
                                    !.c2 = Some(fmt_num(k.last_value)),
                                    !.c3 = Some(fmt_num(k.next_pred))]
               IN /\ kpi' = k
                  /\ IF TileC4Raises(k)
                       THEN /\ pc' = "crashed"
                            /\ ui' = [u3 EXCEPT !.err = "exception"]
                            /\ timer' = 0
                       ELSE /\ pc' = "charts"
                            /\ ui' = [u3 EXCEPT !.c4 = Some(TileC4(k)),
                                                !.c5 = Some(TileC5(k))]
                            /\ UNCHANGED timer
  /\ UNCHANGED <<trigger, asset, auto_refresh, cache, net, calls, health_ok,
                 pred_data, pred_df, history_df, history_supported, res_fig, mae>>

\* Main chart, forecast table and data status.
Charts ==
  /\ pc = "charts"
  /\ ui' = [ui EXCEPT
              !.chart = Some(build_forecast_fig(
                               IF history_supported THEN Some(history_df) ELSE None,
                               pred_df)),
              !.table = IF pred_df = <<>> THEN "info" ELSE "table",
              !.status = IF history_supported THEN "available" ELSE "not available"]
  /\ pc' = "diag"
  /\ UNCHANGED <<trigger, asset, auto_refresh, timer, cache, net, calls, health_ok,
                 pred_data, pred_df, history_df, history_supported, kpi, res_fig, mae>>

\* Diagnostics: the residual chart and MAE, or one of the two messages.
Diagnostics ==
  /\ pc = "diag"
  /\ IF history_supported /\ ResidualRaises(history_df, pred_df)
       THEN /\ pc' = "crashed"
            /\ ui' = [ui EXCEPT !.err = "exception"]
            /\ timer' = 0
            /\ UNCHANGED <<res_fig, mae>>
       ELSE /\ pc' = "autorefresh"
            /\ UNCHANGED timer
            /\ IF history_supported
                 THEN LET r == build_residual_fig(history_df, pred_df)
                      IN /\ res_fig' = r.fig
                         /\ mae' = r.mae
                         /\ ui' = [ui EXCEPT !.diag = IF r.fig = None
                                                        THEN "no_overlap"
                                                        ELSE "residual"]
                 ELSE /\ ui' = [ui EXCEPT !.diag = "enable_history"]
                      /\ UNCHANGED <<res_fig, mae>>
  /\ UNCHANGED <<trigger, asset, auto_refresh, cache, net, calls, health_ok,
                 pred_data, pred_df, history_df, history_supported, kpi>>

\* Auto refresh: the last statement of the script mounts the timer with the
\* sidebar's interval; a run that does not reach it, or reaches it with the
\* checkbox off, leaves no timer on the page.
AutoRefresh ==
  /\ pc = "autorefresh"
  /\ IF auto_refresh
       THEN \E refresh_sec \in RefreshSecs : timer' = refresh_sec
       ELSE timer' = 0
  /\ pc' = "done"
  /\ UNCHANGED <<trigger, asset, auto_refresh, cache, net, calls, health_ok,
                 pred_data, pred_df, history_df, history_supported, kpi, ui,
                 res_fig, mae>>

\* -------------------------------------------------------- specifications
Script ==
  \/ HealthCheck
  \/ FetchPredict(CyclePredictBodies)
  \/ FetchHistory(CycleHistoryBodies)
  \/ KPIs
  \/ Charts
  \/ Diagnostics
  \/ AutoRefresh

Next ==
  \/ ManualRerun
  \/ TimerRerun
  \/ HealthCheck
  \/ FetchPredict(CyclePredictBodies)
  \/ FetchHistory(CycleHistoryBodies)
  \/ KPIs
  \/ Charts
  \/ Diagnostics
  \/ AutoRefresh

Spec == Init /\ [][Next]_vars

\* A started run executes to its end, and a mounted timer fires.
FairSpec == Spec /\ WF_vars(Script) /\ WF_vars(TimerRerun)

\* One run over every /predict body within the bounds.
KpiNext ==
  \/ HealthCheck
  \/ FetchPredict(PredictBodies)
  \/ FetchHistory(CycleHistoryBodies)
  \/ KPIs
  \/ Charts
  \/ Diagnostics
  \/ AutoRefresh

KpiSpec == Init /\ [][KpiNext]_vars

\* One run over every pair of numeric, parseable record lists within the
\* bounds, in any order and with repeated dates; history timestamps are at
\* time 0 of the day and forecast timestamps at time 1.
JoinVals == {0, MaxVal}

JoinPredictBodies ==
  [last_value : {None},
   predictions : SeqsUpTo({PredRec(Ts(d, 1), Num(v)) : d \in Days, v \in JoinVals},
                          MaxRecs)]

JoinHistoryBodies ==
  [history : SeqsUpTo({HistRec(Ts(d, 0), Num(v)) : d \in Days, v \in JoinVals},
                      MaxRecs)]

JoinNext ==
  \/ HealthCheck
  \/ FetchPredict(JoinPredictBodies)
  \/ FetchHistory(JoinHistoryBodies)
  \/ KPIs
  \/ Charts
  \/ Diagnostics
  \/ AutoRefresh

JoinSpec == Init /\ [][JoinNext]_vars

\* ---------------------------------------------------------------- claims
NoTiles == ui.c1 = None /\ ui.c2 = None /\ ui.c3 = None /\ ui.c4 = None /\ ui.c5 = None

NothingRendered ==
  /\ NoTiles
  /\ ui.chart = None /\ ui.table = "none" /\ ui.status = "none" /\ ui.diag = "none"
  /\ res_fig = None /\ mae = None

HealthCallFailed ==
  /\ Len(calls) >= 1
  /\ (calls[1].raised \/ calls[1].body[1].status # "ok")

PredictCallFailed ==
  /\ Len(calls) >= 2
  /\ (calls[2].raised \/ ~DatesParse(calls[2].body[1].predictions))

HistoryCallFailed ==
  /\ Len(calls) >= 3
  /\ (calls[3].raised \/ ~DatesParse(calls[3].body[1].history))

RanKpi == pc \in {"charts", "diag", "autorefresh", "done", "crashed"}
RanCharts == pc \in {"diag", "autorefresh", "done"}
RanDiag == pc \in {"autorefresh", "done"}
NumericForecast == \A i \in DOMAIN pred_df : IsNum(pred_df[i].yhat)

\* C1: when the /health call of a run raises or returns a status other than
\* "ok", the run has stopped with the error shown, /health is the only call
\* of the run, and no tile, chart, table, status or diagnostics is rendered.
C1_HealthFailureStops ==
  HealthCallFailed =>
    /\ pc = "stopped"
    /\ ui.err = "unhealthy"
    /\ Len(calls) = 1 /\ calls[1].ep = "health"
    /\ NothingRendered

C1_Witness ==
  /\ HealthCallFailed /\ ~calls[1].raised
  /\ pc = "stopped" /\ trigger = "timer"

\* C2: when /health is ok, /predict succeeded and the /history call failed,
\* the run neither stops nor crashes, history_supported is false, the tiles
\* are rendered, the status reads "not available", the chart has no Actual
\* trace and the diagnostics show the "enable /history" message.
C2_HistoryFailureNonFatal ==
  HistoryCallFailed =>
    /\ pc \notin {"stopped", "crashed"}
    /\ ~history_supported
    /\ RanKpi => (ui.c2 # None /\ ui.c3 # None /\ ui.c4 # None /\ ui.c5 # None)
    /\ RanCharts => (ui.status = "not available" /\ "Actual" \notin ui.chart[1])
    /\ RanDiag => ui.diag = "enable_history"

\* C3: once the KPI row has run with last_value = 0 and a non-empty numeric
\* forecast, pct and pct_h are None, both change tiles show "-", and the
\* run has not failed.
C3_ZeroLastValue ==
  (RanKpi /\ NumericForecast /\ pred_df # <<>> /\ pred_data[1].last_value = Some(0)) =>
    /\ kpi.pct = None /\ kpi.pct_h = None
    /\ ui.c4 = Some(Dash) /\ ui.c5 = Some(Dash)
    /\ pc # "crashed"
\* C4: with auto-refresh enabled, every run that has ended is eventually
\* followed by a timer-driven run that calls get_json again.
C4_TimerRetries ==
  [](((pc \in Ended) /\ auto_refresh) => <>(trigger = "timer" /\ calls # <<>>))

\* C5: after the diagnostics of a run with history, the residual rows are
\* the inner join of history_df and pred_df on date equality (one row per
\* pair of rows with equal dates, hence exactly one per shared date when
\* neither frame repeats a date), each with residual = close - yhat and
\* abs_error = |residual|; mae is the mean abs_error of the rows; with no
\* shared date the result is (None, None) and the "no overlap" message.
RefRow(ra, rp) ==
  LET c == ra.close[2]
      y == rp.yhat[2]
  IN [date |-> ra.date, close |-> c, yhat |-> y, residual |-> c - y,
      abs_error |-> IF c >= y THEN c - y ELSE y - c]

NoDupDates(df) == \A i, j \in DOMAIN df : i # j => df[i].date # df[j].date

RECURSIVE SumAbs(_, _, _)
SumAbs(S, a, p) ==
  IF S = {} THEN 0
  ELSE LET x == CHOOSE x \in S : TRUE
       IN RefRow(a[x[1]], p[x[2]]).abs_error + SumAbs(S \ {x}, a, p)

C5_ResidualJoin ==
  (RanDiag /\ history_supported) =>
    LET a == history_df
        p == pred_df
        pairs == {x \in (DOMAIN a) \X (DOMAIN p) : a[x[1]].date = p[x[2]].date}
        shared == {a[i].date : i \in DOMAIN a} \cap {p[j].date : j \in DOMAIN p}
    IN IF pairs = {}
         THEN res_fig = None /\ mae = None /\ ui.diag = "no_overlap"
         ELSE /\ res_fig # None /\ ui.diag = "residual"
              /\ Len(res_fig[1]) = Cardinality(pairs)
              /\ {res_fig[1][i] : i \in DOMAIN res_fig[1]}
                   = {RefRow(a[x[1]], p[x[2]]) : x \in pairs}
              /\ (NoDupDates(a) /\ NoDupDates(p)) =>
                   /\ Len(res_fig[1]) = Cardinality(shared)
                   /\ \A d \in shared :
                        Cardinality({i \in DOMAIN res_fig[1] : res_fig[1][i].date = d}) = 1
              /\ mae = Some((SumAbs(pairs, a, p) * MaeScale) \div Cardinality(pairs))

C5_Witness ==
  /\ pc = "done" /\ history_supported
  /\ NoDupDates(history_df) /\ NoDupDates(pred_df)
  /\ Len(history_df) = 2 /\ Len(pred_df) = 2
  /\ history_df[1].date # pred_df[1].date
  /\ res_fig # None /\ Len(res_fig[1]) = 2
  /\ mae = Some((MaeScale * MaxVal) \div 2)

WellFormed(rec) == rec.date[1] = "ts" /\ IsNum(rec.yhat)

\* C6: for a /predict body of well-formed records, the forecast and history frames a run uses are strictly ascending by
\* date (sorted, no repeated date), and the KPI row's next and end forecast
\* are the values at the earliest and the latest date.
Ascending(df) == \A i, j \in DOMAIN df : i < j => df[i].date < df[j].date

C6_SeriesSorted ==
  (pred_data # None
     /\ \A i \in DOMAIN pred_data[1].predictions :
          WellFormed(pred_data[1].predictions[i])) =>
  /\ Ascending(pred_df)
  /\ Ascending(history_df)
  /\ (RanKpi /\ pred_df # <<>>) =>
       \A i \in DOMAIN pred_df :
          /\ (\A j \in DOMAIN pred_df : pred_df[i].date <= pred_df[j].date)
               => kpi.next_pred = Some(pred_df[i].yhat[2])
          /\ (\A j \in DOMAIN pred_df : pred_df[i].date >= pred_df[j].date)
               => kpi.end_pred = Some(pred_df[i].yhat[2])

\* C7: when exactly one record of the /predict body is malformed
\* (unparseable date or non-numeric value) and another is well-formed, the
\* run neither stops nor crashes, no error is shown, and pred_df holds
\* exactly the well-formed records.
C7_MalformedRowSkipped ==
  (Len(calls) >= 2 /\ ~calls[2].raised
     /\ Len(calls[2].body[1].predictions) >= 2
     /\ Cardinality({i \in DOMAIN calls[2].body[1].predictions :
                       ~WellFormed(calls[2].body[1].predictions[i])}) = 1) =>
    /\ pc \notin {"stopped", "crashed"}
    /\ ui.err = "none"
    /\ pred_df = ConvertDates(SelectSeq(calls[2].body[1].predictions, WellFormed))

\* C8: once the KPI row has run on a numeric forecast, the run has not
\* failed; next_pred and end_pred are None iff the forecast is empty; delta
\* (delta_h) is present iff last_value and next_pred (end_pred) are; and a
\* tile whose value is None shows "-" while the others show their values.
C8_KpiDegrades ==
  (RanKpi /\ NumericForecast) =>
    /\ pc # "crashed"
    /\ (kpi.next_pred = None) <=> (pred_df = <<>>)
    /\ (kpi.end_pred = None) <=> (pred_df = <<>>)
    /\ (kpi.delta # None) <=> (kpi.last_value # None /\ kpi.next_pred # None)
    /\ (kpi.delta_h # None) <=> (kpi.last_value # None /\ kpi.end_pred # None)
    /\ (ui.c2 = Some(Dash)) <=> (kpi.last_value = None)
    /\ (ui.c3 = Some(Dash)) <=> (kpi.next_pred = None)
    /\ kpi.delta = None => ui.c4 = Some(Dash)
    /\ kpi.delta_h = None => ui.c5 = Some(Dash)
    /\ ui.c2 # None /\ ui.c3 # None /\ ui.c4 # None /\ ui.c5 # None

\* C9: a get_json call is answered without a request, and with the body the
\* network returned, exactly when the network returned a body for the same
\* URL and parameters less than TTL seconds ago; otherwise a request is
\* sent; and a call that raised leaves no live entry behind.
C9_CacheTTL ==
  [][Len(calls') = Len(calls) + 1 =>
       LET c == calls'[Len(calls')]
           fresh == net[c.req] # None /\ net[c.req][1].age < TTL
       IN /\ fresh => (~c.sent /\ ~c.raised /\ c.body = Some(net[c.req][1].resp))
          /\ ~fresh => c.sent
          /\ c.raised => ~Live(cache', c.req)]_vars

C9_Witness ==
  /\ Len(calls) = 3
  /\ ~calls[2].sent /\ calls[3].sent /\ ~calls[3].raised
  /\ trigger = "timer"

\* C10: the calls of a run are a prefix of health, predict, history (each
\* at most once, in that order); /predict is called only after /health
\* returned ok and /history only after /predict succeeded; a /predict
\* failure stops the run with two calls made and no tile rendered.
C10_RequestOrder ==
  /\ Len(calls) <= 3
  /\ \A i \in DOMAIN calls : calls[i].ep = Endpoints[i]
  /\ Len(calls) >= 2 => ~HealthCallFailed
  /\ Len(calls) >= 3 => ~PredictCallFailed
  /\ PredictCallFailed =>
       /\ pc = "stopped" /\ ui.err = "predict_failed"
       /\ Len(calls) = 2
       /\ NothingRendered

C10_Witness ==
  /\ PredictCallFailed /\ calls[2].sent /\ calls[2].raised
  /\ pc = "stopped"

====
